---------------------------- MODULE Spec2Model ----------------------------
(***************************************************************************)
(* Model of the tab generator of MidiToTab (src/tabs.py): class Tabs with  *)
(* find_start, note_nearest_to_fret, generate_notes and render, over the   *)
(* static tables NOTE_TO_STRING and SCALE.                                 *)
(*                                                                         *)
(* Pitch names are sequences of one-character strings (<<"F","#","4">> is  *)
(* 'F#4'), so that _fix_note_name can be modelled by what it does to the   *)
(* characters.  The empty fret cell '' of NOTE_TO_STRING is written 0: no  *)
(* cell of the table holds fret 0, and Python treats both as false.        *)
(***************************************************************************)
EXTENDS Integers, Sequences, FiniteSets, TLC

VARIABLES
    key,          \* Tabs.key: <<tonic, scale_type>>
    notes,        \* Tabs.notes: the pitch names of the performed notes
    notes_cache,  \* Tabs.notes_cache: pitch name -> <<fret, string>>
    pc,           \* position of the caller in generate_notes
    idx,          \* generate_notes: index of the next note of the for loop
    fret,         \* generate_notes: local fret (the running fret)
    scale_notes,  \* generate_notes: local scale_notes (from find_start)
    to_play,      \* generate_notes: local to_play
    calls,        \* number of generate_notes calls started on this instance
    returned,     \* the lists returned by the finished calls, in order
    error,        \* the exception that ended the call, or "none"
    notes_list,   \* render: the argument notes_list
    staff_length, \* render: kwargs staff_length
    fretboard,    \* render: local fretboard (six tracks of characters)
    output,       \* render: local output (list of lines)
    break_point,  \* render: local break_point
    start,        \* render: local start
    end,          \* render: local end
    string_idx,   \* render: local string_idx
    rpc           \* position inside render

genVars == <<key, notes, notes_cache, pc, idx, fret, scale_notes, to_play,
             calls, returned>>
renderVars == <<notes_list, staff_length, fretboard, output, break_point,
                start, end, string_idx, rpc>>
vars == <<genVars, error, renderVars>>

----------------------------------------------------------------------------
(* Bounds of the model *)

\* longest note sequence handed to Tabs
MaxNotes == 3
\* generate_notes calls made on one Tabs instance
MaxCalls == 2
\* longest triple sequence handed to render
MaxTriples == 2
\* largest staff_length handed to render
MaxStaff == 6

----------------------------------------------------------------------------
(* Static data of src/tabs.py *)

GUITAR_STRING == 6
TAB_LINE_CHAR == "-"
\* min_fret = min_string = min_diff = 999
NO_MIN == 999
\* span: int = 8
WALK_SPAN == 8

GUITAR_STAFF == <<"E", "A", "D", "G", "B", "E">>

MAJOR == "major"
IONIAN == "ionian"
DORIAN == "dorian"
PHRYGIAN == "phrygian"
LYDIAN == "lydian"
LOCRIAN == "locrian"
MINOR == "minor"
AEOLIAN == "aeolian"

SCALE ==
    [m \in {"major", "ionian", "dorian", "phrygian", "lydian", "mixolydian",
            "locrian", "minor", "aeolian", "jazz_minor"} |->
        CASE m = "major"      -> <<2, 2, 1, 2, 2, 2, 1>>
          [] m = "ionian"     -> <<2, 2, 1, 2, 2, 2, 1>>
          [] m = "dorian"     -> <<2, 1, 2, 2, 2, 1, 2>>
          [] m = "phrygian"   -> <<1, 2, 2, 2, 1, 2, 2>>
          [] m = "lydian"     -> <<2, 2, 2, 1, 2, 2, 1>>
          [] m = "mixolydian" -> <<2, 2, 1, 2, 2, 1, 2>>
          [] m = "locrian"    -> <<1, 2, 2, 1, 2, 2, 2>>
          [] m = "minor"      -> <<2, 1, 2, 2, 1, 2, 2>>
          [] m = "aeolian"    -> <<2, 1, 2, 2, 1, 2, 2>>
          [] m = "jazz_minor" -> <<2, 1, 2, 2, 2, 2, 1>>]

\* The dict literal NOTE_TO_STRING as written, entry by entry in source
\* order: <<key, <<fret on string 1, ..., fret on string 6>>>>.
NOTE_TO_STRING_LITERAL ==
    <<
       <<<<"F", "4">>,    << 1,  6, 10, 15, 20,  0>>>>,
       <<<<"F", "#", "4">>, << 2,  7, 11, 16, 21,  0>>>>,
       <<<<"G", "4">>,    << 3,  8, 12, 17, 22,  0>>>>,
       <<<<"A", "b", "4">>, << 4,  9, 13, 18,  0,  0>>>>,
       <<<<"G", "#", "4">>, << 4,  9, 13, 18,  0,  0>>>>,
       <<<<"A", "4">>,    << 5, 10, 14, 19,  0,  0>>>>,
       <<<<"B", "b", "4">>, << 6, 11, 15, 20,  0,  0>>>>,
       <<<<"A", "#", "4">>, << 6, 11, 15, 20,  0,  0>>>>,
       <<<<"B", "4">>,    << 7, 12, 16, 21,  0,  0>>>>,
       <<<<"C", "5">>,    << 8, 13, 17, 22,  0,  0>>>>,
       <<<<"C", "#", "5">>, << 9, 14, 18,  0,  0,  0>>>>,
       <<<<"D", "5">>,    <<10, 15, 19,  0,  0,  0>>>>,
       <<<<"E", "b", "5">>, <<11, 16, 20,  0,  0,  0>>>>,
       <<<<"D", "#", "5">>, <<11, 16, 20,  0,  0,  0>>>>,
       <<<<"E", "5">>,    <<12, 17, 21,  0,  0,  0>>>>,
       <<<<"F", "5">>,    <<13, 18, 22,  0,  0,  0>>>>,
       <<<<"F", "#", "5">>, <<14, 19,  0,  0,  0,  0>>>>,
       <<<<"G", "5">>,    <<15, 20,  0,  0,  0,  0>>>>,
       <<<<"A", "b", "5">>, <<16, 21,  0,  0,  0,  0>>>>,
       <<<<"G", "#", "5">>, <<16, 21,  0,  0,  0,  0>>>>,
       <<<<"A", "5">>,    <<17, 22,  0,  0,  0,  0>>>>,
       <<<<"B", "b", "5">>, <<18,  0,  0,  0,  0,  0>>>>,
       <<<<"A", "#", "5">>, <<18,  0,  0,  0,  0,  0>>>>,
       <<<<"B", "5">>,    <<19,  0,  0,  0,  0,  0>>>>,
       <<<<"C", "6">>,    <<20,  0,  0,  0,  0,  0>>>>,
       <<<<"C", "#", "6">>, <<21,  0,  0,  0,  0,  0>>>>,
       <<<<"D", "6">>,    <<22,  0,  0,  0,  0,  0>>>>,
       <<<<"C", "4">>,    << 0,  1,  5, 10, 15, 20>>>>,
       <<<<"C", "#", "4">>, << 0,  2,  6, 11, 16, 21>>>>,
       <<<<"D", "4">>,    << 0,  3,  7, 12, 17, 22>>>>,
       <<<<"E", "b", "4">>, << 0,  4,  8, 13, 18,  0>>>>,
       <<<<"D", "#", "4">>, << 0,  4,  8, 13, 18,  0>>>>,
       <<<<"E", "4">>,    << 0,  5,  9, 14, 19,  0>>>>,
       <<<<"A", "b", "3">>, << 0,  0,  1,  6, 11, 16>>>>,
       <<<<"G", "#", "3">>, << 0,  0,  1,  6, 11, 16>>>>,
       <<<<"A", "3">>,    << 0,  0,  2,  7, 12, 17>>>>,
       <<<<"B", "b", "3">>, << 0,  0,  3,  8, 13, 18>>>>,
       <<<<"A", "#", "3">>, << 0,  0,  3,  8, 13, 18>>>>,
       <<<<"B", "3">>,    << 0,  0,  4,  9, 14, 19>>>>,
       <<<<"E", "b", "3">>, << 0,  0,  0,  1,  6, 11>>>>,
       <<<<"D", "#", "3">>, << 0,  0,  0,  1,  6, 11>>>>,
       <<<<"E", "3">>,    << 0,  0,  0,  2,  7, 12>>>>,
       <<<<"F", "3">>,    << 0,  0,  0,  3,  8, 13>>>>,
       <<<<"F", "#", "3">>, << 0,  0,  0,  4,  9, 14>>>>,
       <<<<"G", "3">>,    << 0,  0,  0,  5, 10, 15>>>>,
       <<<<"B", "b", "2">>, << 0,  0,  0,  0,  1,  6>>>>,
       <<<<"A", "#", "2">>, << 0,  0,  0,  0,  1,  6>>>>,
       <<<<"B", "2">>,    << 0,  0,  0,  0,  2,  7>>>>,
       <<<<"C", "3">>,    << 0,  0,  0,  0,  3,  8>>>>,
       <<<<"C", "#", "3">>, << 0,  0,  0,  0,  4,  9>>>>,
       <<<<"D", "3">>,    << 0,  0,  0,  0,  5, 10>>>>,
       <<<<"F", "2">>,    << 0,  0,  0,  0,  0,  1>>>>,
       <<<<"F", "#", "2">>, << 0,  0,  0,  0,  0,  2>>>>,
       <<<<"G", "2">>,    << 0,  0,  0,  0,  0,  3>>>>,
       <<<<"A", "b", "2">>, << 0,  0,  0,  0,  0,  4>>>>,
       <<<<"G", "#", "2">>, << 0,  0,  0,  0,  0,  4>>>>,
       <<<<"A", "2">>,    << 0,  0,  0,  0,  0,  5>>>>,
       <<<<"B", "1">>,    << 0,  0,  0,  0,  0,  5>>>>,
       <<<<"C", "#", "2">>, << 0,  0,  0,  0,  0,  0>>>>,
       <<<<"D", "b", "2">>, << 0,  0,  0,  0,  0,  0>>>>,
       <<<<"D", "2">>,    << 0,  0,  0,  0,  0,  0>>>>,
       <<<<"D", "#", "2">>, << 0,  0,  0,  0,  0,  0>>>>,
       <<<<"E", "b", "2">>, << 0,  0,  0,  0,  0,  0>>>>,
       <<<<"E", "2">>,    << 0,  0,  0,  0,  0,  0>>>>,
       <<<<"F", "2">>,    << 0,  0,  0,  0,  0,  0>>>>,
       <<<<"F", "#", "1">>, << 0,  0,  0,  0,  0,  0>>>>,
       <<<<"G", "b", "1">>, << 0,  0,  0,  0,  0,  0>>>>,
       <<<<"G", "1">>,    << 0,  0,  0,  0,  0,  0>>>>,
       <<<<"G", "#", "1">>, << 0,  0,  0,  0,  0,  0>>>>,
       <<<<"A", "b", "1">>, << 0,  0,  0,  0,  0,  0>>>>,
       <<<<"A", "1">>,    << 0,  0,  0,  0,  0,  0>>>>,
       <<<<"A", "#", "1">>, << 0,  0,  0,  0,  0,  0>>>>,
       <<<<"B", "b", "1">>, << 0,  0,  0,  0,  0,  0>>>>,
       <<<<"B", "1">>,    << 0,  0,  0,  0,  0,  0>>>>,
       <<<<"F", "7">>,    <<14, 19,  0,  0,  0,  0>>>>
    >>

\* A Python dict literal keeps, for a key written twice ('F2', 'B1'), the
\* value written last.
NOTE_TO_STRING ==
    [k \in {NOTE_TO_STRING_LITERAL[n][1] : n \in DOMAIN NOTE_TO_STRING_LITERAL} |->
        LET last == CHOOSE n \in DOMAIN NOTE_TO_STRING_LITERAL :
                        /\ NOTE_TO_STRING_LITERAL[n][1] = k
                        /\ \A m \in DOMAIN NOTE_TO_STRING_LITERAL :
                               NOTE_TO_STRING_LITERAL[m][1] = k => m <= n
        IN  NOTE_TO_STRING_LITERAL[last][2]]

Strings == 1..GUITAR_STRING


----------------------------------------------------------------------------
(* Tabs._fix_note_name, Tabs._get_scale *)

IsDigit(c) == c \in {"0", "1", "2", "3", "4", "5", "6", "7", "8", "9"}

\* name.replace('-', 'b'); a name that does not end in a digit gets the
\* pitch's implicitOctave appended (music21: 4 when the pitch has no octave).
fix_note_name(pitch) ==
    LET name == [i \in 1..Len(pitch) |-> IF pitch[i] = "-" THEN "b" ELSE pitch[i]]
    IN  IF IsDigit(name[Len(name)]) THEN name ELSE Append(name, "4")

\* The music21 scale class _get_scale builds for the key, and its tonic.
get_scale(k) ==
    LET pitch == k[1]
        scale_type == k[2]
    IN  IF scale_type \in {MAJOR, IONIAN} THEN [cls |-> "MajorScale", tonic |-> pitch]
        ELSE IF scale_type \in {MINOR, AEOLIAN} THEN [cls |-> "MinorScale", tonic |-> pitch]
        ELSE IF scale_type = DORIAN THEN [cls |-> "DorianScale", tonic |-> pitch]
        ELSE IF scale_type = PHRYGIAN THEN [cls |-> "PhrygianScale", tonic |-> pitch]
        ELSE IF scale_type = LYDIAN THEN [cls |-> "LydianScale", tonic |-> pitch]
        ELSE IF scale_type = LOCRIAN THEN [cls |-> "LocrianScale", tonic |-> pitch]
        ELSE [cls |-> "MajorScale", tonic |-> pitch]

\* this_scale_notes[0]: the first pitch of sc.pitches is the tonic of the
\* scale, whatever the scale class, named with its octave (nameWithOctave;
\* music21 realises a tonic without octave in octave 4).
first_note(sc) ==
    IF IsDigit(sc.tonic[Len(sc.tonic)]) THEN sc.tonic ELSE Append(sc.tonic, "4")

----------------------------------------------------------------------------
(* Tabs.find_start *)

RECURSIVE find_start_walk_last_tie(_, _, _, _)
find_start_walk_last_tie(w, note_string, note_fret, this_scale_step) ==
    IF ~(w.string > 0 /\ w.span > 0 /\ note_fret # 0) THEN w
    ELSE
        LET fret1     == w.fret + this_scale_step[w.step + 1]
            step1     == w.step + 1
            num1      == w.num_notes + 1
            list1     == Append(w.note_list, <<fret1, w.string>>)
            step2     == IF step1 >= Len(this_scale_step) THEN 0 ELSE step1
            drop      == fret1 > note_fret + 3
            fret2     == IF drop THEN fret1 - (IF w.string = 2 THEN 4 ELSE 5) ELSE fret1
            string2   == IF drop THEN w.string - 1 ELSE w.string
            longer    == num1 >= w.max_count
        IN  find_start_walk_last_tie(
                [string            |-> string2,
                 fret              |-> fret2,
                 num_notes         |-> num1,
                 step              |-> step2,
                 span              |-> w.span - 1,
                 note_list         |-> list1,
                 max_count         |-> IF longer THEN num1 ELSE w.max_count,
                 start_fret        |-> IF longer THEN note_fret ELSE w.start_fret,
                 start_string      |-> IF longer THEN note_string ELSE w.start_string,
                 start_scale_notes |-> IF longer THEN list1 ELSE w.start_scale_notes],
                note_string, note_fret, this_scale_step)

\* The while loop of find_start for one string of the tonic: w holds the
\* locals string, fret, num_notes, step, span, note_list and the running
\* max_count, start_fret, start_string, start_scale_notes.
RECURSIVE find_start_walk(_, _, _, _)
find_start_walk(w, note_string, note_fret, this_scale_step) ==
    IF ~(w.string > 0 /\ w.span > 0 /\ note_fret # 0) THEN w
    ELSE
        LET fret1     == w.fret + this_scale_step[w.step + 1]
            step1     == w.step + 1
            num1      == w.num_notes + 1
            list1     == Append(w.note_list, <<fret1, w.string>>)
            step2     == IF step1 >= Len(this_scale_step) THEN 0 ELSE step1
            drop      == fret1 > note_fret + 3
            fret2     == IF drop THEN fret1 - (IF w.string = 2 THEN 4 ELSE 5) ELSE fret1
            string2   == IF drop THEN w.string - 1 ELSE w.string
            longer    == num1 > w.max_count
        IN  find_start_walk(
                [string            |-> string2,
                 fret              |-> fret2,
                 num_notes         |-> num1,
                 step              |-> step2,
                 span              |-> w.span - 1,
                 note_list         |-> list1,
                 max_count         |-> IF longer THEN num1 ELSE w.max_count,
                 start_fret        |-> IF longer THEN note_fret ELSE w.start_fret,
                 start_string      |-> IF longer THEN note_string ELSE w.start_string,
                 start_scale_notes |-> IF longer THEN list1 ELSE w.start_scale_notes],
                note_string, note_fret, this_scale_step)

\* The for loop of find_start over note_info.items(), strings 1..6 in
\* dict order; best holds max_count, start_fret, start_string and
\* start_scale_notes.
RECURSIVE find_start_strings(_, _, _, _)
find_start_strings(note_string, best, note_info, this_scale_step) ==
    IF note_string > GUITAR_STRING THEN best
    ELSE
        LET note_fret == note_info[note_string]
            w == find_start_walk(
                     [string            |-> note_string,
                      fret              |-> note_fret,
                      num_notes         |-> 0,
                      step              |-> 0,
                      span              |-> WALK_SPAN,
                      note_list         |-> << <<note_fret, note_string>> >>,
                      max_count         |-> best.max_count,
                      start_fret        |-> best.start_fret,
                      start_string      |-> best.start_string,
                      start_scale_notes |-> best.start_scale_notes],
                     note_string, note_fret, this_scale_step)
        IN  find_start_strings(
                note_string + 1,
                [max_count         |-> w.max_count,
                 start_fret        |-> w.start_fret,
                 start_string      |-> w.start_string,
                 start_scale_notes |-> w.start_scale_notes],
                note_info, this_scale_step)

\* find_start: [raised, fret, string, scale_notes]; raised is "KeyError"
\* when SCALE[scale_type] or NOTE_TO_STRING[first note] has no such key.
find_start(k) ==
    LET scale_type == k[2]
        sc         == get_scale(k)
        tonic      == fix_note_name(first_note(sc))
    IN  IF scale_type \notin DOMAIN SCALE
          THEN [raised |-> "KeyError", fret |-> 0, string |-> 0, scale_notes |-> <<>>]
        ELSE IF tonic \notin DOMAIN NOTE_TO_STRING
          THEN [raised |-> "KeyError", fret |-> 0, string |-> 0, scale_notes |-> <<>>]
        ELSE
            LET best == find_start_strings(
                            1,
                            [max_count |-> 0, start_fret |-> 0, start_string |-> 0,
                             start_scale_notes |-> <<>>],
                            NOTE_TO_STRING[tonic], SCALE[scale_type])
            IN  [raised      |-> "none",
                 fret        |-> best.start_fret,
                 string      |-> best.start_string,
                 scale_notes |-> best.start_scale_notes]

----------------------------------------------------------------------------
(* Tabs.note_nearest_to_fret *)

Abs(n) == IF n < 0 THEN -n ELSE n

on_scale_never(note_fret, note_string, scale) == FALSE

\* if (note_fret, note_string) in scale_notes
on_scale(note_fret, note_string, scale) ==
    \E n \in DOMAIN scale : scale[n] = <<note_fret, note_string>>

cache_hit_never(note, cache) == FALSE

\* if self.notes_cache.get(note): a cached tuple is never empty, so the
\* test is true exactly when the note has an entry.
cache_hit(note, cache) == note \in DOMAIN cache

cache_store_swapped(cache, note, min_fret, min_string) ==
    [n \in DOMAIN cache \cup {note} |->
        IF n = note THEN <<min_string, min_fret>> ELSE cache[n]]

\* self.notes_cache[note] = (min_fret, min_string)
cache_store(cache, note, min_fret, min_string) ==
    [n \in DOMAIN cache \cup {note} |->
        IF n = note THEN <<min_fret, min_string>> ELSE cache[n]]

\* The for loop of note_nearest_to_fret over note_info.items() from string
\* note_string on, with the locals min_fret, min_string, min_diff in m.
\* The result is [ret |-> <<fret, string>>, cache |-> notes_cache afterwards].
RECURSIVE nearest_scan(_, _, _, _, _, _)
nearest_scan(note_string, m, from_fret, note, scale, cache) ==
    IF note_string > GUITAR_STRING
      THEN [ret   |-> <<m.min_fret, m.min_string>>,
            cache |-> cache_store(cache, note, m.min_fret, m.min_string)]
    ELSE
        LET note_fret == NOTE_TO_STRING[note][note_string]
            diff      == Abs(note_fret - from_fret)
        IN  IF note_fret = 0
              THEN nearest_scan(note_string + 1, m, from_fret, note, scale, cache)
            ELSE IF on_scale(note_fret, note_string, scale)
              THEN [ret |-> <<note_fret, note_string>>, cache |-> cache]
            ELSE IF cache_hit(note, cache)
              THEN [ret |-> cache[note], cache |-> cache]
            ELSE IF diff <= m.min_diff
              THEN nearest_scan(note_string + 1,
                                [min_fret |-> note_fret, min_string |-> note_string,
                                 min_diff |-> diff],
                                from_fret, note, scale, cache)
            ELSE nearest_scan(note_string + 1, m, from_fret, note, scale, cache)

RECURSIVE nearest_scan_first_tie(_, _, _, _, _, _)
nearest_scan_first_tie(note_string, m, from_fret, note, scale, cache) ==
    IF note_string > GUITAR_STRING
      THEN [ret   |-> <<m.min_fret, m.min_string>>,
            cache |-> cache_store(cache, note, m.min_fret, m.min_string)]
    ELSE
        LET note_fret == NOTE_TO_STRING[note][note_string]
            diff      == Abs(note_fret - from_fret)
        IN  IF note_fret = 0
              THEN nearest_scan_first_tie(note_string + 1, m, from_fret, note, scale, cache)
            ELSE IF on_scale(note_fret, note_string, scale)
              THEN [ret |-> <<note_fret, note_string>>, cache |-> cache]
            ELSE IF cache_hit(note, cache)
              THEN [ret |-> cache[note], cache |-> cache]
            ELSE IF diff < m.min_diff
              THEN nearest_scan_first_tie(note_string + 1,
                                [min_fret |-> note_fret, min_string |-> note_string,
                                 min_diff |-> diff],
                                from_fret, note, scale, cache)
            ELSE nearest_scan_first_tie(note_string + 1, m, from_fret, note, scale, cache)

note_nearest_to_fret_first_tie(from_fret, note, scale, cache) ==
    nearest_scan_first_tie(1, [min_fret |-> NO_MIN, min_string |-> NO_MIN, min_diff |-> NO_MIN],
                           from_fret, note, scale, cache)

\* note_nearest_to_fret(fret, note, scale_notes) on a note that has an entry
\* in NOTE_TO_STRING (every entry is a non-empty dict, so note_info is true).
note_nearest_to_fret(from_fret, note, scale, cache) ==
    nearest_scan(1, [min_fret |-> NO_MIN, min_string |-> NO_MIN, min_diff |-> NO_MIN],
                 from_fret, note, scale, cache)

----------------------------------------------------------------------------
(* Tabs.generate_notes *)

generate_notes_step_keep_fret(g, note, scale) ==
    IF note \notin DOMAIN NOTE_TO_STRING THEN g
    ELSE
        LET r == note_nearest_to_fret(g.fret, note, scale, g.cache)
        IN  [fret    |-> g.fret,
             to_play |-> Append(g.to_play, <<note, r.ret[2], r.ret[1]>>),
             cache   |-> r.cache]

generate_notes_step_reset(g, note, scale) ==
    IF note \notin DOMAIN NOTE_TO_STRING THEN [g EXCEPT !.fret = 0]
    ELSE
        LET r == note_nearest_to_fret(g.fret, note, scale, g.cache)
        IN  [fret    |-> r.ret[1],
             to_play |-> Append(g.to_play, <<note, r.ret[2], r.ret[1]>>),
             cache   |-> r.cache]

\* One iteration of the for loop of generate_notes on the locals and the
\* cache in g = [fret, to_play, cache].
generate_notes_step(g, note, scale) ==
    IF note \notin DOMAIN NOTE_TO_STRING THEN g
    ELSE
        LET r == note_nearest_to_fret(g.fret, note, scale, g.cache)
        IN  [fret    |-> r.ret[1],
             to_play |-> Append(g.to_play, <<note, r.ret[2], r.ret[1]>>),
             cache   |-> r.cache]

RECURSIVE generate_notes_loop(_, _, _, _)
generate_notes_loop(g, ns, n, scale) ==
    IF n > Len(ns) THEN g
    ELSE generate_notes_loop(generate_notes_step(g, ns[n], scale), ns, n + 1, scale)

\* A whole call of generate_notes on a Tabs with the given notes, key and
\* notes_cache: [raised, to_play, cache].
generate_notes(ns, k, cache) ==
    LET fs == find_start(k)
    IN  IF fs.raised # "none"
          THEN [raised |-> fs.raised, to_play |-> <<>>, cache |-> cache]
        ELSE
            LET g == generate_notes_loop(
                         [fret |-> fs.fret, to_play |-> <<>>, cache |-> cache],
                         ns, 1, fs.scale_notes)
            IN  [raised |-> "none", to_play |-> g.to_play, cache |-> g.cache]

----------------------------------------------------------------------------
(* Inputs *)

\* Pitch names of performed notes: on and off the scale walks of the keys
\* below, with one string or several, 'E2' with an entry of empty cells
\* only, and 'Gb4' with no entry in NOTE_TO_STRING.
NotePitches ==
    { <<"D", "4">>, <<"E", "4">>, <<"B", "2">>, <<"G", "2">>, <<"E", "2">>,
      <<"G", "b", "4">> }

\* Tonics as music21 names them ('-' is the flat sign): with and without
\* octave, with an entry of empty cells only ('E2'), without entry ('G-4').
Tonics ==
    { <<"C", "4">>, <<"C">>, <<"E", "-", "4">>, <<"D", "6">>, <<"E", "2">>,
      <<"G", "-", "4">> }

\* Mode names: keys of SCALE, and 'blues', which is none.
Modes == {"major", "minor", "mixolydian", "blues"}

Keys == Tonics \X Modes

SeqsUpTo(S, n) == UNION {[1..m -> S] : m \in 0..n}

EmptyCache == <<>>

RenderIdle ==
    /\ notes_list = <<>>
    /\ staff_length = 0
    /\ fretboard = <<>>
    /\ output = <<>>
    /\ break_point = 0
    /\ start = 0
    /\ end = 0
    /\ string_idx = 0
    /\ rpc = "idle"

----------------------------------------------------------------------------
(* Tabs(notes, key) and calls of generate_notes on it *)

\* Tabs.__init__
Init ==
    /\ key \in Keys
    /\ notes \in SeqsUpTo(NotePitches, MaxNotes)
    /\ notes_cache = EmptyCache
    /\ pc = "constructed"
    /\ idx = 0
    /\ fret = 0
    /\ scale_notes = <<>>
    /\ to_play = <<>>
    /\ calls = 0
    /\ returned = <<>>
    /\ error = "none"
    /\ RenderIdle

\* generate_notes is called and find_start raises: the call ends there.
GenerateNotesRaises ==
    /\ pc \in {"constructed", "returned"}
    /\ calls < MaxCalls
    /\ find_start(key).raised # "none"
    /\ calls' = calls + 1
    /\ error' = find_start(key).raised
    /\ pc' = "raised"
    /\ UNCHANGED <<key, notes, notes_cache, idx, fret, scale_notes, to_play, returned>>
    /\ UNCHANGED renderVars

\* generate_notes is called: fret, _, scale_notes = self.find_start();
\* to_play = [].
GenerateNotesBegin ==
    /\ pc \in {"constructed", "returned"}
    /\ calls < MaxCalls
    /\ find_start(key).raised = "none"
    /\ calls' = calls + 1
    /\ fret' = find_start(key).fret
    /\ scale_notes' = find_start(key).scale_notes
    /\ to_play' = <<>>
    /\ idx' = 1
    /\ pc' = "loop"
    /\ UNCHANGED <<key, notes, notes_cache, returned, error>>
    /\ UNCHANGED renderVars

\* One iteration of for note in self.notes.
GenerateNotesIterate ==
    /\ pc = "loop"
    /\ idx <= Len(notes)
    /\ LET g == generate_notes_step(
                    [fret |-> fret, to_play |-> to_play, cache |-> notes_cache],
                    notes[idx], scale_notes)
       IN  /\ fret' = g.fret
           /\ to_play' = g.to_play
           /\ notes_cache' = g.cache
    /\ idx' = idx + 1
    /\ UNCHANGED <<key, notes, pc, scale_notes, calls, returned, error>>
    /\ UNCHANGED renderVars

\* return to_play
GenerateNotesReturn ==
    /\ pc = "loop"
    /\ idx > Len(notes)
    /\ returned' = Append(returned, to_play)
    /\ pc' = "returned"
    /\ UNCHANGED <<key, notes, notes_cache, idx, fret, scale_notes, to_play, calls, error>>
    /\ UNCHANGED renderVars

Next ==
    \/ GenerateNotesRaises
    \/ GenerateNotesBegin
    \/ GenerateNotesIterate
    \/ GenerateNotesReturn

Spec == Init /\ [][Next]_vars

----------------------------------------------------------------------------
(* Tabs.render *)

Digits == <<"0", "1", "2", "3", "4", "5", "6", "7", "8", "9">>

\* str(note_fret) for a fret >= 0: its decimal digits.
RECURSIVE Str(_)
Str(n) == IF n < 10 THEN <<Digits[n + 1]>>
          ELSE Str(n \div 10) \o <<Digits[(n % 10) + 1]>>

\* TAB_LINE_CHAR * n
Dashes(n) == [i \in 1..n |-> TAB_LINE_CHAR]

Min(a, b) == IF a < b THEN a ELSE b

\* Python's s[a:b] on a string s, for 0 <= a <= b.
Slice(s, a, b) == SubSeq(s, a + 1, Min(b, Len(s)))

\* for idx, fretboard_string in enumerate(fretboard): the track of the
\* note's string grows to the length of every longer track met, in order.
pad_target_none(fb, target, i) == fb

RECURSIVE pad_target(_, _, _)
pad_target(fb, target, i) ==
    IF i > GUITAR_STRING THEN fb
    ELSE IF Len(fb[i]) > Len(fb[target])
      THEN pad_target([fb EXCEPT ![target] = @ \o Dashes(Len(fb[i]) - Len(fb[target]))],
                      target, i + 1)
    ELSE pad_target(fb, target, i + 1)

\* The body of for note, note_string, note_fret in notes_list.
render_note(fb, triple) ==
    LET target == triple[2]
        padded == pad_target(fb, target, 1)
    IN  [padded EXCEPT ![target] =
            @ \o <<TAB_LINE_CHAR>> \o Str(triple[3]) \o <<TAB_LINE_CHAR>>]

RECURSIVE render_notes(_, _, _)
render_notes(fb, triples, n) ==
    IF n > Len(triples) THEN fb
    ELSE render_notes(render_note(fb, triples[n]), triples, n + 1)

\* max_staff_length = len(max(fretboard, key=len)) and the padding loop.
pad_all(fb) ==
    LET max_staff_length == CHOOSE l \in {Len(fb[i]) : i \in Strings} :
                                \A i \in Strings : Len(fb[i]) <= l
    IN  [i \in Strings |-> fb[i] \o Dashes(max_staff_length - Len(fb[i]))]

scan_break_point_stuck(fb, i, bp) ==
    IF \E s \in Strings : bp >= Len(fb[s])
      THEN [raised |-> "IndexError", break_point |-> bp]
      ELSE [raised |-> "none", break_point |-> bp]

\* for string in fretboard: if string[break_point] != TAB_LINE_CHAR:
\* break_point += 1.  string[break_point] raises IndexError when break_point
\* is not below len(string); the result is [raised, break_point].
RECURSIVE scan_break_point(_, _, _)
scan_break_point(fb, i, bp) ==
    IF i > GUITAR_STRING THEN [raised |-> "none", break_point |-> bp]
    ELSE IF bp >= Len(fb[i]) THEN [raised |-> "IndexError", break_point |-> bp]
    ELSE IF fb[i][bp + 1] # TAB_LINE_CHAR THEN scan_break_point(fb, i + 1, bp + 1)
    ELSE scan_break_point(fb, i + 1, bp)

block_lines_off_by_one(fb, a, b) ==
    [i \in 1..(GUITAR_STRING + 1) |->
        IF i <= GUITAR_STRING THEN <<GUITAR_STAFF[i]>> \o Slice(fb[i], a + 1, b) ELSE <<>>]

\* for idx, string in enumerate(fretboard):
\*     output.append(GUITAR_STAFF[idx] + string[start:end])
\* and then output.append('')
block_lines(fb, a, b) ==
    [i \in 1..(GUITAR_STRING + 1) |->
        IF i <= GUITAR_STRING THEN <<GUITAR_STAFF[i]>> \o Slice(fb[i], a, b) ELSE <<>>]

\* Well-formed triples handed to render: any string, one-digit and
\* two-digit frets at both ends of the fretboard.
RenderFrets == {0, 22}
RenderTriples == {<<"C", "4">>} \X Strings \X RenderFrets

GenerateIdle ==
    /\ key = << <<"C", "4">>, "major" >>
    /\ notes = <<>>
    /\ notes_cache = EmptyCache
    /\ pc = "idle"
    /\ idx = 0
    /\ fret = 0
    /\ scale_notes = <<>>
    /\ to_play = <<>>
    /\ calls = 0
    /\ returned = <<>>

\* render(notes_list, staff_length=...) is called.
InitRender ==
    /\ GenerateIdle
    /\ error = "none"
    /\ notes_list \in SeqsUpTo(RenderTriples, MaxTriples)
    /\ staff_length \in 1..MaxStaff
    /\ fretboard = [i \in Strings |-> <<>>]
    /\ output = <<>>
    /\ break_point = 0
    /\ start = 0
    /\ end = 0
    /\ string_idx = 0
    /\ rpc = "build"

\* The first for loop over notes_list and the padding to max_staff_length.
RenderBuild ==
    /\ rpc = "build"
    /\ fretboard' = pad_all(render_notes(fretboard, notes_list, 1))
    /\ break_point' = staff_length
    /\ rpc' = "scan"
    /\ UNCHANGED <<notes_list, staff_length, output, start, end, string_idx, error>>
    /\ UNCHANGED genVars

\* The break-point loop runs through; string_idx = 0, start = 0,
\* end = break_point.
RenderScan ==
    /\ rpc = "scan"
    /\ LET r == scan_break_point(fretboard, 1, break_point)
       IN  /\ r.raised = "none"
           /\ break_point' = r.break_point
           /\ end' = r.break_point
    /\ start' = 0
    /\ string_idx' = 0
    /\ rpc' = "blocks"
    /\ UNCHANGED <<notes_list, staff_length, fretboard, output, error>>
    /\ UNCHANGED genVars

\* The break-point loop indexes past the end of a track: render raises.
RenderScanRaises ==
    /\ rpc = "scan"
    /\ LET r == scan_break_point(fretboard, 1, break_point)
       IN  /\ r.raised # "none"
           /\ error' = r.raised
    /\ rpc' = "raised"
    /\ UNCHANGED <<notes_list, staff_length, fretboard, output, break_point,
                   start, end, string_idx>>
    /\ UNCHANGED genVars

\* while True: the exit test
RenderExit ==
    /\ Slice(fretboard[string_idx + 1], start, Len(fretboard[string_idx + 1])) = <<>>
    /\ start > staff_length

\* One iteration of the while loop that emits a block.
RenderBlock ==
    /\ rpc = "blocks"
    /\ ~RenderExit
    /\ output' = output \o block_lines(fretboard, start, end)
    /\ string_idx' = (string_idx + 1) % GUITAR_STRING
    /\ start' = end
    /\ end' = end + break_point
    /\ UNCHANGED <<notes_list, staff_length, fretboard, break_point, rpc, error>>
    /\ UNCHANGED genVars

\* break; return output
RenderReturn ==
    /\ rpc = "blocks"
    /\ RenderExit
    /\ rpc' = "returned"
    /\ UNCHANGED <<notes_list, staff_length, fretboard, output, break_point,
                   start, end, string_idx, error>>
    /\ UNCHANGED genVars

NextRender ==
    \/ RenderBuild
    \/ RenderScan
    \/ RenderScanRaises
    \/ RenderBlock
    \/ RenderReturn

SpecRender == InitRender /\ [][NextRender]_vars

----------------------------------------------------------------------------
(* Properties of generate_notes, checked under Spec *)

\* The cells of a pitch that hold a fret, as (fret, string) pairs.
Reachable(note) ==
    {<<NOTE_TO_STRING[note][s], s>> : s \in {x \in Strings : NOTE_TO_STRING[note][x] # 0}}

ScaleWalk == {scale_notes[n] : n \in DOMAIN scale_notes}

\* The running fret when the n-th triple of to_play was chosen.
FretBefore(n) == IF n = 1 THEN find_start(key).fret ELSE to_play[n - 1][3]

\* Some cell of the pitch is strictly nearer to fret f than position pos.
NearerExists(note, f, pos) ==
    \E q \in Reachable(note) : Abs(q[1] - f) < Abs(pos[1] - f)

\* C1: in the triples generate_notes emits, every later occurrence of a
\* pitch carries the same (string, fret) as its first occurrence.
C1_CacheConsistency ==
    \A i, j \in DOMAIN to_play :
        (i < j /\ to_play[i][1] = to_play[j][1]) =>
            (to_play[j][2] = to_play[i][2] /\ to_play[j][3] = to_play[i][3])

\* A pitch is repeated after a different pitch that moved the running fret,
\* and a cell of the pitch lies nearer to that fret than the repeated one.
C1_Witness ==
    /\ pc = "returned"
    /\ Len(to_play) = 3
    /\ to_play[1][1] = to_play[3][1]
    /\ to_play[2][1] # to_play[1][1]
    /\ to_play[2][3] # to_play[1][3]
    /\ NearerExists(to_play[3][1], to_play[2][3], <<to_play[3][3], to_play[3][2]>>)

\* C2: every emitted triple of a pitch that has a cell on the scale walk
\* of find_start lies on the scale walk.
C2_ScalePriority ==
    \A n \in DOMAIN to_play :
        (Reachable(to_play[n][1]) \cap ScaleWalk # {}) =>
            <<to_play[n][3], to_play[n][2]>> \in ScaleWalk

\* In a second call (cache populated) a pitch with a cell on the scale walk
\* is emitted there although another cell is nearer to the running fret.
C2_Witness ==
    /\ calls = 2
    /\ notes_cache # EmptyCache
    /\ \E n \in DOMAIN to_play :
          /\ n > 1
          /\ Reachable(to_play[n][1]) \cap ScaleWalk # {}
          /\ <<to_play[n][3], to_play[n][2]>> \in ScaleWalk
          /\ NearerExists(to_play[n][1], FretBefore(n), <<to_play[n][3], to_play[n][2]>>)

\* C3: every emitted triple (pitch, string, fret) is a position of the
\* fretboard map: string in 1..6, fret in 0..22 and
\* NOTE_TO_STRING[pitch][string] = fret.
C3_ValidPosition ==
    \A n \in DOMAIN to_play :
        /\ to_play[n][2] \in 1..6
        /\ to_play[n][3] \in 0..22
        /\ NOTE_TO_STRING[to_play[n][1]][to_play[n][2]] = to_play[n][3]

\* The notes that have an entry in NOTE_TO_STRING, in order.
Retained(ns) == SelectSeq(ns, LAMBDA n : n \in DOMAIN NOTE_TO_STRING)

\* C4: an iteration of generate_notes on a pitch without entry in
\* NOTE_TO_STRING emits nothing and leaves the running fret and the cache
\* as they are, and the call returns what it returns on the input without
\* such notes.
C4_Drop ==
    /\ [][(pc = "loop" /\ idx <= Len(notes) /\ notes[idx] \notin DOMAIN NOTE_TO_STRING)
            => (to_play' = to_play /\ fret' = fret /\ notes_cache' = notes_cache)]_vars
    /\ [](pc = "returned" =>
            returned[Len(returned)] = generate_notes(Retained(notes), key, EmptyCache).to_play)

\* A call returned after dropping a note that stood between two notes it
\* assigned.
C4_Witness ==
    /\ pc = "returned"
    /\ Len(notes) = 3
    /\ notes[2] \notin DOMAIN NOTE_TO_STRING
    /\ Len(to_play) = 2
    /\ to_play[1][3] # find_start(key).fret
    /\ notes_cache # EmptyCache

\* C8: every call of generate_notes on one Tabs instance, the first and
\* those that start with the cache the earlier calls left, returns what a
\* freshly constructed Tabs returns for the same notes and key.
C8_Idempotent ==
    pc = "returned" =>
        \A n \in DOMAIN returned :
            returned[n] = generate_notes(notes, key, EmptyCache).to_play

\* A second call returned three triples, each served from the cache the
\* first call left, the last one a cell that is not the nearest to the
\* running fret.
C8_Witness ==
    /\ pc = "returned"
    /\ Len(returned) = 2
    /\ Len(to_play) = 3
    /\ \A n \in DOMAIN to_play : to_play[n][1] \in DOMAIN notes_cache
    /\ to_play[2][1] # to_play[3][1]
    /\ NearerExists(to_play[3][1], FretBefore(3), <<to_play[3][3], to_play[3][2]>>)

\* The pitch find_start looks up in NOTE_TO_STRING for key k.
TonicName(k) == fix_note_name(first_note(get_scale(k)))

\* C9: when the tonic of the key has no cell with a fret, a call of
\* generate_notes ends with an error raised by find_start; it does not go
\* on to the notes.
C9_NoPlayablePosition ==
    (/\ calls > 0
     /\ key[2] \in DOMAIN SCALE
     /\ TonicName(key) \in DOMAIN NOTE_TO_STRING
     /\ Reachable(TonicName(key)) = {})
        => pc = "raised"

\* C10: for a mode name that is no key of SCALE, find_start does what it
\* does for 'major' with the same tonic: it raises only if that raises, and
\* generate_notes starts from the same fret and scale walk.
C10_UnknownModeFallsBack ==
    (calls > 0 /\ key[2] \notin DOMAIN SCALE) =>
        LET major == find_start(<<key[1], MAJOR>>)
        IN  /\ error = major.raised
            /\ pc = "loop" => (fret = major.fret /\ scale_notes = major.scale_notes)

----------------------------------------------------------------------------
(* Properties of render, checked under SpecRender *)

BlockSize == GUITAR_STRING + 1
NumBlocks == Len(output) \div BlockSize

\* Line i (1..6 the strings, 7 the separator) of block k of output.
BlockLine(k, i) == output[(k - 1) * BlockSize + i]

\* The track characters of string i in block k: the line without its label.
BlockSlice(k, i) == Tail(BlockLine(k, i))

\* The slices of string i from block k on, concatenated.
RECURSIVE JoinSlices(_, _)
JoinSlices(i, k) ==
    IF k > NumBlocks THEN <<>> ELSE BlockSlice(k, i) \o JoinSlices(i, k + 1)

\* C5: render returns for every well-formed triple sequence and every
\* positive staff_length; it never raises.
C5_RenderTotal == rpc # "raised"

\* C6: the output of render is a sequence of blocks of six lines, the
\* label of string i followed by a slice of its track, and one empty line;
\* the slices of a string, joined in order, are its padded track.
C6_BlocksRebuildTracks ==
    rpc = "returned" =>
        /\ Len(output) % BlockSize = 0
        /\ \A k \in 1..NumBlocks :
              /\ \A i \in Strings :
                    /\ Len(BlockLine(k, i)) >= 1
                    /\ BlockLine(k, i)[1] = GUITAR_STAFF[i]
              /\ BlockLine(k, BlockSize) = <<>>
        /\ \A i \in Strings : JoinSlices(i, 1) = fretboard[i]

\* render returned several blocks, the last one shorter, for notes on two
\* strings.
C6_Witness ==
    /\ rpc = "returned"
    /\ NumBlocks >= 3
    /\ Len(BlockSlice(NumBlocks, 1)) < Len(BlockSlice(1, 1))
    /\ Len(notes_list) = 2
    /\ notes_list[1][2] # notes_list[2][2]

----------------------------------------------------------------------------
(* Enharmonic spellings *)

\* The entries of MIDI_TO_NOTES that give a MIDI number two names, the
\* sharp and the flat spelling of one pitch: <<sharp, flat>>, by number.
MIDI_TO_NOTES_PAIRS ==
    <<
       <<<<"A", "#", "0">>, <<"B", "b", "0">>>>,
       <<<<"C", "#", "1">>, <<"D", "b", "1">>>>,
       <<<<"D", "#", "1">>, <<"E", "b", "1">>>>,
       <<<<"F", "#", "1">>, <<"G", "b", "1">>>>,
       <<<<"G", "#", "1">>, <<"A", "b", "1">>>>,
       <<<<"A", "#", "1">>, <<"B", "b", "1">>>>,
       <<<<"C", "#", "2">>, <<"D", "b", "2">>>>,
       <<<<"D", "#", "2">>, <<"E", "b", "2">>>>,
       <<<<"F", "#", "2">>, <<"G", "b", "2">>>>,
       <<<<"G", "#", "2">>, <<"A", "b", "2">>>>,
       <<<<"A", "#", "2">>, <<"B", "b", "2">>>>,
       <<<<"C", "#", "3">>, <<"D", "b", "3">>>>,
       <<<<"D", "#", "3">>, <<"E", "b", "3">>>>,
       <<<<"F", "#", "3">>, <<"G", "b", "3">>>>,
       <<<<"G", "#", "3">>, <<"A", "b", "3">>>>,
       <<<<"A", "#", "3">>, <<"B", "b", "3">>>>,
       <<<<"C", "#", "4">>, <<"D", "b", "4">>>>,
       <<<<"D", "#", "4">>, <<"E", "b", "4">>>>,
       <<<<"F", "#", "4">>, <<"G", "b", "4">>>>,
       <<<<"G", "#", "4">>, <<"A", "b", "4">>>>,
       <<<<"A", "#", "4">>, <<"B", "b", "4">>>>,
       <<<<"C", "#", "5">>, <<"D", "b", "5">>>>,
       <<<<"D", "#", "5">>, <<"E", "b", "5">>>>,
       <<<<"F", "#", "5">>, <<"G", "b", "5">>>>,
       <<<<"G", "#", "5">>, <<"A", "b", "5">>>>,
       <<<<"A", "#", "5">>, <<"B", "b", "5">>>>,
       <<<<"C", "#", "6">>, <<"D", "b", "6">>>>,
       <<<<"D", "#", "6">>, <<"E", "b", "6">>>>,
       <<<<"F", "#", "6">>, <<"G", "b", "6">>>>,
       <<<<"G", "#", "6">>, <<"A", "b", "6">>>>,
       <<<<"A", "#", "6">>, <<"B", "b", "6">>>>,
       <<<<"C", "#", "7">>, <<"D", "b", "7">>>>,
       <<<<"D", "#", "7">>, <<"E", "b", "7">>>>,
       <<<<"F", "#", "7">>, <<"G", "b", "7">>>>,
       <<<<"G", "#", "7">>, <<"A", "b", "7">>>>,
       <<<<"A", "#", "7">>, <<"B", "b", "7">>>>,
       <<<<"C", "#", "8">>, <<"D", "b", "8">>>>,
       <<<<"D", "#", "8">>, <<"E", "b", "8">>>>,
       <<<<"F", "#", "8">>, <<"G", "b", "8">>>>,
       <<<<"G", "#", "8">>, <<"A", "b", "8">>>>,
       <<<<"A", "#", "8">>, <<"B", "b", "8">>>>,
       <<<<"C", "#", "9">>, <<"D", "b", "9">>>>,
       <<<<"D", "#", "9">>, <<"E", "b", "9">>>>,
       <<<<"F", "#", "9">>, <<"G", "b", "9">>>>
    >>

\* The other spellings of a pitch name.
Enharmonic(note) ==
    {MIDI_TO_NOTES_PAIRS[n][2] : n \in {x \in DOMAIN MIDI_TO_NOTES_PAIRS :
                                          MIDI_TO_NOTES_PAIRS[x][1] = note}}
    \cup
    {MIDI_TO_NOTES_PAIRS[n][1] : n \in {x \in DOMAIN MIDI_TO_NOTES_PAIRS :
                                          MIDI_TO_NOTES_PAIRS[x][2] = note}}

\* What one iteration of generate_notes emits for a pitch in the current
\* state: the triples it appends, without the pitch name.
Emitted(note) ==
    LET g == generate_notes_step(
                 [fret |-> fret, to_play |-> <<>>, cache |-> notes_cache],
                 note, scale_notes)
    IN  [n \in DOMAIN g.to_play |-> <<g.to_play[n][2], g.to_play[n][3]>>]

\* C11: the note generate_notes is about to process and its other
\* spelling both have the same entry in NOTE_TO_STRING, or none has one,
\* and the note gets the position its other spelling would get in the same
\* state.
C11_Enharmonic ==
    (pc = "loop" /\ idx <= Len(notes)) =>
        \A other \in Enharmonic(notes[idx]) :
            /\ other \in DOMAIN NOTE_TO_STRING <=> notes[idx] \in DOMAIN NOTE_TO_STRING
            /\ other \in DOMAIN NOTE_TO_STRING =>
                  NOTE_TO_STRING[other] = NOTE_TO_STRING[notes[idx]]
            /\ Emitted(other) = Emitted(notes[idx])

----------------------------------------------------------------------------
(* Properties of the nearest-fret choice, checked under Spec *)

\* The cells of a pitch at the least distance from fret f.
Nearest(note, f) ==
    {q \in Reachable(note) : \A r \in Reachable(note) : Abs(q[1] - f) <= Abs(r[1] - f)}

\* generate_notes is about to process a pitch that has cells, none of them
\* on the scale walk, and no cached position.
AboutToScan ==
    /\ pc = "loop"
    /\ idx <= Len(notes)
    /\ notes[idx] \in DOMAIN NOTE_TO_STRING
    /\ notes[idx] \notin DOMAIN notes_cache
    /\ Reachable(notes[idx]) # {}
    /\ Reachable(notes[idx]) \cap ScaleWalk = {}

\* ... and two or more of its cells share the least distance from the
\* running fret.
AboutToBreakTie ==
    /\ AboutToScan
    /\ Cardinality(Nearest(notes[idx], fret)) >= 2

\* C12 as stated: among the cells that share the least distance the one on
\* the lowest string is emitted.
C12_TieKeepsFirst ==
    [][AboutToBreakTie =>
         LET tied == Nearest(notes[idx], fret)
             pos  == CHOOSE q \in tied : \A r \in tied : q[2] <= r[2]
         IN  to_play' = Append(to_play, <<notes[idx], pos[2], pos[1]>>)]_vars

\* C12 as amended: among the cells that share the least distance the one
\* on the highest string, the last one scanned, is emitted.
C12_TieKeepsLast ==
    [][AboutToBreakTie =>
         LET tied == Nearest(notes[idx], fret)
             pos  == CHOOSE q \in tied : \A r \in tied : q[2] >= r[2]
         IN  to_play' = Append(to_play, <<notes[idx], pos[2], pos[1]>>)]_vars

\* The first call has just emitted a pitch for the first time, off the
\* scale walk, on the higher of two strings whose cells were equally near
\* to the running fret.
C12_Witness ==
    /\ calls = 1
    /\ pc = "loop"
    /\ Len(to_play) >= 2
    /\ LET n == Len(to_play)
           p == to_play[n][1]
       IN  /\ \A m \in 1..(n - 1) : to_play[m][1] # p
           /\ Reachable(p) \cap ScaleWalk = {}
           /\ Cardinality(Nearest(p, FretBefore(n))) >= 2
           /\ \E q \in Nearest(p, FretBefore(n)) : q[2] < to_play[n][2]
           /\ <<to_play[n][3], to_play[n][2]>> \in Nearest(p, FretBefore(n))

\* C13: a pitch with cells, none on the scale walk, and no cached position
\* is emitted on a cell at the least distance from the running fret, and
\* that cell's fret becomes the running fret; the running fret is the fret
\* of the triple emitted last, or the start fret of find_start when none
\* was emitted yet.
C13_NearestToRunningFret ==
    /\ [][AboutToScan =>
            \E q \in Nearest(notes[idx], fret) :
                /\ to_play' = Append(to_play, <<notes[idx], q[2], q[1]>>)
                /\ fret' = q[1]]_vars
    /\ [](pc = "loop" =>
            fret = IF to_play = <<>> THEN find_start(key).fret
                   ELSE to_play[Len(to_play)][3])

\* The first call has just emitted a pitch for the first time, off the
\* scale walk, on its one cell nearest to the fret of the triple before,
\* which is not a cell nearest to the start fret.
C13_Witness ==
    /\ calls = 1
    /\ pc = "loop"
    /\ Len(to_play) >= 2
    /\ LET n == Len(to_play)
           p == to_play[n][1]
       IN  /\ \A m \in 1..(n - 1) : to_play[m][1] # p
           /\ Reachable(p) \cap ScaleWalk = {}
           /\ Nearest(p, FretBefore(n)) = {<<to_play[n][3], to_play[n][2]>>}
           /\ <<to_play[n][3], to_play[n][2]>> \notin Nearest(p, find_start(key).fret)
           /\ fret = to_play[n][3]

----------------------------------------------------------------------------
(* Properties of find_start, checked under Spec *)

\* The walk find_start simulates from string s of the tonic of key k, on
\* its own: its locals when the while loop ends.
WalkFrom(k, s) ==
    find_start_walk(
        [string |-> s, fret |-> NOTE_TO_STRING[TonicName(k)][s], num_notes |-> 0,
         step |-> 0, span |-> WALK_SPAN,
         note_list |-> << <<NOTE_TO_STRING[TonicName(k)][s], s>> >>,
         max_count |-> 0, start_fret |-> 0, start_string |-> 0,
         start_scale_notes |-> <<>>],
        s, NOTE_TO_STRING[TonicName(k)][s], SCALE[k[2]])

\* The strings on which the tonic of key k has a fret.
TonicStrings(k) == {s \in Strings : NOTE_TO_STRING[TonicName(k)][s] # 0}

\* The keys find_start walks for: the mode has a scale and the tonic is a
\* pitch of NOTE_TO_STRING with a fret on some string.
WalkKeys ==
    {k \in Keys : /\ k[2] \in DOMAIN SCALE
                  /\ TonicName(k) \in DOMAIN NOTE_TO_STRING
                  /\ TonicStrings(k) # {}}

\* The walk from each string of the tonic, for every such key.
Walks ==
    UNION {{[key |-> k, string |-> s, walk |-> WalkFrom(k, s)] :
               s \in TonicStrings(k)} : k \in WalkKeys}

\* The walks of key k.
WalksOf(k) == {w \in Walks : w.key = k}

\* For every key, the walk with the most steps, of the lowest string among
\* equals.
LongestWalk ==
    {CHOOSE w \in WalksOf(k) :
         \A r \in WalksOf(k) :
             /\ r.walk.num_notes <= w.walk.num_notes
             /\ r.walk.num_notes = w.walk.num_notes => w.string <= r.string :
     k \in WalkKeys}

\* C14: when the tonic has a fret on some string, find_start returns the
\* origin (fret, string) of the walk with the most steps, of the lowest
\* string among equals, and that walk's position list, the origin and one
\* position per step; no walk has more than 8 steps; generate_notes starts
\* from that fret and list.
C14_LongestWalk ==
    (pc = "loop" /\ idx = 1 /\ key \in WalkKeys) =>
        LET fs  == find_start(key)
            win == CHOOSE w \in LongestWalk : w.key = key
        IN  /\ \A w \in WalksOf(key) : w.walk.num_notes <= WALK_SPAN
            /\ fs.string = win.string
            /\ fs.fret = NOTE_TO_STRING[TonicName(key)][win.string]
            /\ fs.scale_notes = win.walk.note_list
            /\ fs.scale_notes[1] = <<fs.fret, fs.string>>
            /\ Len(fs.scale_notes) = win.walk.num_notes + 1
            /\ fret = fs.fret
            /\ scale_notes = fs.scale_notes

\* A call whose tonic has a shorter walk on a lower string and an equally
\* long walk on a higher string than the one find_start chose.
C14_Witness ==
    /\ pc = "loop"
    /\ idx = 1
    /\ key \in WalkKeys
    /\ LET win == CHOOSE w \in LongestWalk : w.key = key
       IN  /\ \E s, r \in WalksOf(key) :
                 /\ s.string < win.string
                 /\ s.walk.num_notes < win.walk.num_notes
                 /\ r.string > win.string
                 /\ r.walk.num_notes = win.walk.num_notes
           /\ scale_notes = win.walk.note_list

\* C15: every position of the scale walk generate_notes got from
\* find_start is on the fretboard: string in 1..6 and fret in 0..22.
C15_WalkWithinFretboard ==
    \A n \in DOMAIN scale_notes :
        /\ scale_notes[n][2] \in 1..6
        /\ scale_notes[n][1] \in 0..22

----------------------------------------------------------------------------
(* Properties of the tracks render builds, checked under SpecRender *)

\* The number of columns the first n triples of notes_list take: a dash,
\* the digits of the fret and a dash for each.
RECURSIVE GroupEnd(_)
GroupEnd(n) ==
    IF n = 0 THEN 0 ELSE GroupEnd(n - 1) + Len(Str(notes_list[n][3])) + 2

\* C16: in the six padded tracks the group '-fret-' of the n-th triple
\* stands on the track of its string in the columns right after the group
\* of the triple before it, so the groups follow each other in performance
\* order without overlap; every column holds a non-dash character in at
\* most one track, the tracks hold no other non-dash character than the
\* digits of the frets, and all six tracks have the same length.
C16_AlignedColumns ==
    rpc # "build" =>
        /\ \A i \in Strings : Len(fretboard[i]) = GroupEnd(Len(notes_list))
        /\ \A n \in DOMAIN notes_list :
              SubSeq(fretboard[notes_list[n][2]], GroupEnd(n - 1) + 1, GroupEnd(n))
                  = <<TAB_LINE_CHAR>> \o Str(notes_list[n][3]) \o <<TAB_LINE_CHAR>>
        /\ \A c \in 1..GroupEnd(Len(notes_list)) :
              Cardinality({i \in Strings : fretboard[i][c] # TAB_LINE_CHAR}) <= 1
        /\ \A i \in Strings : \A c \in 1..Len(fretboard[i]) :
              fretboard[i][c] # TAB_LINE_CHAR =>
                  \E n \in DOMAIN notes_list :
                      /\ notes_list[n][2] = i
                      /\ GroupEnd(n - 1) + 1 < c
                      /\ c < GroupEnd(n)

\* The tracks are built for two triples, the first with a two-digit fret,
\* the second on a lower string that had to be padded first.
C16_Witness ==
    /\ rpc = "scan"
    /\ Len(notes_list) = 2
    /\ notes_list[2][2] < notes_list[1][2]
    /\ Len(Str(notes_list[1][3])) = 2
    /\ fretboard[notes_list[2][2]][GroupEnd(1) + 2] # TAB_LINE_CHAR
    /\ fretboard[notes_list[2][2]][1] = TAB_LINE_CHAR

====
